---- MODULE Spec2Model ----
(***************************************************************************)
(* Model of backend-python/main.py: a FastAPI application with a           *)
(* permissive CORSMiddleware and one route, GET /health, served by         *)
(* uvicorn on 0.0.0.0:8000.                                                *)
(*                                                                         *)
(* main.py is glue: what a request is answered with is decided by the      *)
(* objects it constructs.  Each definition below names the line of main.py *)
(* that constructs or calls the object, and the library routine whose      *)
(* behaviour it follows (fastapi.FastAPI, fastapi.routing.APIRoute,        *)
(* starlette.routing.Router/Route, starlette.middleware.cors, uvicorn).    *)
(***************************************************************************)
EXTENDS Integers, Sequences, FiniteSets, TLC

VARIABLES
    pc,              \* position of the process in main.py / its life cycle
    stdout,          \* lines printed so far
    bindAttempts,    \* number of times the listener socket was bound
    listener,        \* <<host, port>> of the bound socket, <<>> when none
    exitCode,        \* -1 while the process runs, else its exit status
    app,             \* the application object: routes, middleware, schema
    conn,            \* the connections being handled, one record per slot
    served,          \* number of responses sent
    lastReq,         \* the request answered last
    lastResp         \* the response sent last

vars == <<pc, stdout, bindAttempts, listener, exitCode, app, conn, served,
          lastReq, lastResp>>

----------------------------------------------------------------------------
(* Bounds of the model *)

\* responses the model lets the server send in one run
MaxServed == 2
\* connections handled at the same time
MaxInFlight == 2

----------------------------------------------------------------------------
(* Values *)

\* a header that the message does not carry (Python's None)
None == "<none>"

\* uvicorn.run(app, host="0.0.0.0", port=8000)
Host == "0.0.0.0"
Port == 8000

\* the two print() calls of the entry point (emoji prefixes left out)
Banner1 == "Starting Python Backend..."
Banner2 == "Server running on http://localhost:8000"

\* A path is its list of segments and whether it ends in "/":
\* "/health" is <<"health">> without slash, "/" is <<>> with slash.
Path(segs, slash) == [segs |-> segs, slash |-> slash]

HealthPath == Path(<<"health">>, FALSE)
OpenapiPath == Path(<<"openapi.json">>, FALSE)
DocsPath == Path(<<"docs">>, FALSE)
OAuth2RedirectPath == Path(<<"docs", "oauth2-redirect">>, FALSE)
RedocPath == Path(<<"redoc">>, FALSE)
RootPath == Path(<<>>, TRUE)

\* starlette.middleware.cors.ALL_METHODS, which allow_methods=["*"] expands to
ALL_METHODS == <<"DELETE", "GET", "HEAD", "OPTIONS", "PATCH", "POST", "PUT">>

Range(s) == {s[i] : i \in DOMAIN s}

----------------------------------------------------------------------------
(* The application object, main.py lines 4-16 *)

\* Mutant of health: the service is named differently.
health_renamed == <<<<"status", "ok">>, <<"service", "backend">>>>

\* The dictionary returned by health(), as the ordered key/value pairs of
\* its JSON encoding.
health == <<<<"status", "ok">>, <<"service", "python-backend">>>>

\* The module before line 4 runs: no application object yet.
NoApp == [routes |-> <<>>, user_middleware |-> <<>>, openapi_schema |-> <<>>]

\* FastAPI(): the constructor's setup() registers the OpenAPI and
\* documentation routes (starlette Route: GET, and HEAD added with it).
FastAPI ==
    [routes |->
        << [path |-> OpenapiPath, methods |-> {"GET", "HEAD"}, endpoint |-> "openapi"],
           [path |-> DocsPath, methods |-> {"GET", "HEAD"},
            endpoint |-> "swagger_ui_html"],
           [path |-> OAuth2RedirectPath, methods |-> {"GET", "HEAD"},
            endpoint |-> "swagger_ui_redirect"],
           [path |-> RedocPath, methods |-> {"GET", "HEAD"}, endpoint |-> "redoc_html"] >>,
     user_middleware |-> <<>>,
     openapi_schema |-> <<>>]

\* Mutants of cors: one origin listed instead of the wildcard; credentials
\* left at the default; one header listed instead of the wildcard.
cors_one_origin ==
    [allow_origins |-> <<"http://localhost:3000">>,
     allow_credentials |-> TRUE,
     allow_methods |-> <<"*">>,
     allow_headers |-> <<"*">>]
cors_no_credentials ==
    [allow_origins |-> <<"*">>,
     allow_credentials |-> FALSE,
     allow_methods |-> <<"*">>,
     allow_headers |-> <<"*">>]
cors_one_header ==
    [allow_origins |-> <<"*">>,
     allow_credentials |-> TRUE,
     allow_methods |-> <<"*">>,
     allow_headers |-> <<"content-type">>]

\* The CORSMiddleware options of lines 8-11.
cors ==
    [allow_origins |-> <<"*">>,
     allow_credentials |-> TRUE,
     allow_methods |-> <<"*">>,
     allow_headers |-> <<"*">>]

\* app.add_middleware(CORSMiddleware, ...): put in front of the middleware list
add_middleware(a, options) ==
    [a EXCEPT !.user_middleware = <<options>> \o @]

\* Mutant of get: HEAD is added with GET, as starlette's own Route does.
get_and_head(a, path, endpoint) ==
    [a EXCEPT !.routes = Append(@, [path |-> path, methods |-> {"GET", "HEAD"},
                                    endpoint |-> endpoint])]

\* @app.get("/health"): an APIRoute for GET only, appended to the routes
get(a, path, endpoint) ==
    [a EXCEPT !.routes = Append(@, [path |-> path, methods |-> {"GET"},
                                    endpoint |-> endpoint])]

----------------------------------------------------------------------------
(* Messages *)

\* Headers are a mapping from lower-case names to values; a header the
\* message does not carry is not in the mapping's domain.
NoHeaders == [n \in {} |-> None]
Has(headers, name) == name \in DOMAIN headers
\* MutableHeaders.update / headers[name] = value: the new value wins
Update(headers, more) == more @@ headers

Request(method, path, headers) ==
    [method |-> method, path |-> path, headers |-> headers]

Response(status, headers, body) ==
    [status |-> status, headers |-> headers, body |-> body]

\* A body is a list of pairs: the members of a JSON object, or the pair
\* <<"text", t>> for a text or HTML document t (followed, in the CORS
\* rejection text, by one <<"failure", f>> pair per failure named).
JSONResponse(status, content, headers) ==
    Response(status, Update(headers, "content-type" :> "application/json"), content)
PlainTextResponse(status, text, headers) ==
    Response(status, Update(headers, "content-type" :> "text/plain; charset=utf-8"),
             text)
HTMLResponse(status, html) ==
    Response(status, "content-type" :> "text/html; charset=utf-8", <<<<"text", html>>>>)
RedirectResponse(url) ==
    Response(307, "location" :> url, <<>>)

\* no request read, no response built
NoResponse == Response(0, NoHeaders, <<>>)
NoRequest == Request(None, RootPath, NoHeaders)

----------------------------------------------------------------------------
(* Routing: app.router, which line 14 registers /health with *)

\* Mutant of RouteMatches: a trailing slash is ignored.
RouteMatches_lax(route, req) ==
    IF route.path.segs = req.path.segs
    THEN IF req.method \in route.methods THEN "FULL" ELSE "PARTIAL"
    ELSE "NONE"

\* Route.matches: the path must match the route's pattern; a matching path
\* with a method outside route.methods is a partial match.
RouteMatches(route, req) ==
    IF route.path = req.path
    THEN IF req.method \in route.methods THEN "FULL" ELSE "PARTIAL"
    ELSE "NONE"

\* the first route whose match is m, or 0
FirstMatch(routes, req, m) ==
    LET S == {i \in DOMAIN routes : RouteMatches(routes[i], req) = m}
    IN  IF S = {} THEN 0 ELSE CHOOSE i \in S : \A j \in S : i <= j

\* FastAPI.openapi(): the generated schema, abbreviated to three members
OpenapiSchema ==
    <<<<"openapi", "3.1.0">>, <<"info", "FastAPI 0.1.0">>, <<"paths", "/health">>>>

\* The response of a route's endpoint.
Endpoint(name) ==
    CASE name = "health" -> JSONResponse(200, health, NoHeaders)
      [] name = "openapi" -> JSONResponse(200, OpenapiSchema, NoHeaders)
      [] name = "swagger_ui_html" -> HTMLResponse(200, "swagger-ui")
      [] name = "swagger_ui_redirect" -> HTMLResponse(200, "oauth2-redirect")
      [] name = "redoc_html" -> HTMLResponse(200, "redoc")

\* Router.app's slash redirect: the path with its trailing slash toggled
RedirectPath(path) == [path EXCEPT !.slash = ~path.slash]

\* Router.app: the first full match is handled; else the first partial
\* match answers 405 with an Allow header; else a route matching the path
\* with the trailing slash toggled answers a redirect; else 404.
RouterApp(routes, req) ==
    LET full == FirstMatch(routes, req, "FULL")
        partial == FirstMatch(routes, req, "PARTIAL")
        redirect == [req EXCEPT !.path = RedirectPath(req.path)]
    IN  IF full # 0 THEN Endpoint(routes[full].endpoint)
        ELSE IF partial # 0
        THEN JSONResponse(405, <<<<"detail", "Method Not Allowed">>>>,
                          "allow" :> routes[partial].methods)
        ELSE IF /\ req.path # RootPath
                /\ \E i \in DOMAIN routes : RouteMatches(routes[i], redirect) # "NONE"
        THEN RedirectResponse(redirect.path)
        ELSE JSONResponse(404, <<<<"detail", "Not Found">>>>, NoHeaders)

\* Mutant of AppAfter: handling a request drops the middleware list.
AppAfter_unmounts(a, req) == [a EXCEPT !.user_middleware = <<>>]

\* What handling req leaves in the application object: FastAPI.openapi()
\* keeps the schema it builds in app.openapi_schema, and the openapi
\* endpoint is its only caller; nothing else is assigned.
AppAfter(a, req) ==
    LET full == FirstMatch(a.routes, req, "FULL")
    IN  IF full # 0 /\ a.routes[full].endpoint = "openapi"
        THEN [a EXCEPT !.openapi_schema = OpenapiSchema]
        ELSE a

----------------------------------------------------------------------------
(* CORSMiddleware, as line 6 installs it *)

\* starlette.middleware.cors.SAFELISTED_HEADERS, lower-cased
SAFELISTED_HEADERS == {"accept", "accept-language", "content-language", "content-type"}

\* the header names of the model, in sorted order
HeaderNames ==
    <<"accept", "accept-language", "authorization", "content-language",
      "content-type", "x-custom">>

\* CORSMiddleware.__init__: what the options are turned into
AllowMethods(o) ==
    IF "*" \in Range(o.allow_methods) THEN ALL_METHODS ELSE o.allow_methods
AllowAllOrigins(o) == "*" \in Range(o.allow_origins)
AllowAllHeaders(o) == "*" \in Range(o.allow_headers)
PreflightExplicitAllowOrigin(o) == ~AllowAllOrigins(o) \/ o.allow_credentials
\* sorted(SAFELISTED_HEADERS | set(allow_headers))
AllowHeaders(o) ==
    LET In(h) == h \in SAFELISTED_HEADERS \cup Range(o.allow_headers)
    IN  SelectSeq(HeaderNames, In)

\* self.simple_headers
SimpleHeaders(o) ==
    (IF AllowAllOrigins(o) THEN "access-control-allow-origin" :> "*" ELSE NoHeaders)
    @@ (IF o.allow_credentials
        THEN "access-control-allow-credentials" :> "true" ELSE NoHeaders)

\* self.preflight_headers
PreflightHeaders(o) ==
    (IF PreflightExplicitAllowOrigin(o)
     THEN "vary" :> "Origin" ELSE "access-control-allow-origin" :> "*")
    @@ ("access-control-allow-methods" :> AllowMethods(o))
    @@ ("access-control-max-age" :> "600")
    @@ (IF ~AllowAllHeaders(o)
        THEN "access-control-allow-headers" :> AllowHeaders(o) ELSE NoHeaders)
    @@ (IF o.allow_credentials
        THEN "access-control-allow-credentials" :> "true" ELSE NoHeaders)

\* CORSMiddleware.is_allowed_origin (no allow_origin_regex is given)
IsAllowedOrigin(o, origin) ==
    AllowAllOrigins(o) \/ origin \in Range(o.allow_origins)

\* CORSMiddleware.preflight_response
PreflightResponse(o, request_headers) ==
    LET requested_origin == request_headers["origin"]
        requested_method == request_headers["access-control-request-method"]
        has_requested == Has(request_headers, "access-control-request-headers")
        requested_headers ==
            IF has_requested THEN request_headers["access-control-request-headers"]
            ELSE <<>>
        allowed == IsAllowedOrigin(o, requested_origin)
        bad_method == requested_method \notin Range(AllowMethods(o))
        bad_headers ==
            /\ ~AllowAllHeaders(o)
            /\ has_requested
            /\ \E i \in DOMAIN requested_headers :
                   requested_headers[i] \notin Range(AllowHeaders(o))
        headers ==
            (IF AllowAllHeaders(o) /\ has_requested
             THEN "access-control-allow-headers" :> requested_headers ELSE NoHeaders)
            @@ (IF allowed /\ PreflightExplicitAllowOrigin(o)
                THEN "access-control-allow-origin" :> requested_origin ELSE NoHeaders)
            @@ PreflightHeaders(o)
        failures ==
            (IF allowed THEN <<>> ELSE <<<<"failure", "origin">>>>)
            \o (IF bad_method THEN <<<<"failure", "method">>>> ELSE <<>>)
            \o (IF bad_headers THEN <<<<"failure", "headers">>>> ELSE <<>>)
    IN  IF failures # <<>>
        THEN PlainTextResponse(400, <<<<"text", "Disallowed CORS">>>> \o failures, headers)
        ELSE PlainTextResponse(200, <<<<"text", "OK">>>>, headers)

\* CORSMiddleware.send: the headers put on the response the application
\* starts, for a request that carries an Origin
SimpleResponse(o, request_headers, response) ==
    LET origin == request_headers["origin"]
        has_cookie == Has(request_headers, "cookie")
        explicit ==
            \/ AllowAllOrigins(o) /\ has_cookie
            \/ ~AllowAllOrigins(o) /\ IsAllowedOrigin(o, origin)
        headers ==
            (IF explicit
             THEN ("access-control-allow-origin" :> origin) @@ ("vary" :> "Origin")
             ELSE NoHeaders)
            @@ SimpleHeaders(o) @@ response.headers
    IN  [response EXCEPT !.headers = headers]

\* CORSMiddleware.__call__, first half: which way the request goes
CorsDispatch(req) ==
    IF ~Has(req.headers, "origin") THEN "app"
    ELSE IF req.method = "OPTIONS" /\ Has(req.headers, "access-control-request-method")
    THEN "preflight"
    ELSE "simple"

\* the server leaves the body out of the answer to a HEAD request
OnTheWire(req, response) ==
    IF req.method = "HEAD" THEN [response EXCEPT !.body = <<>>] ELSE response

\* The application called with one request, alone: the middleware stack
\* built from app.user_middleware around the router.
Respond(a, req) ==
    LET inner == RouterApp(a.routes, req)
    IN  OnTheWire(req,
            IF a.user_middleware = <<>> THEN inner
            ELSE LET o == a.user_middleware[1]
                     way == CorsDispatch(req)
                 IN  CASE way = "app" -> inner
                       [] way = "preflight" -> PreflightResponse(o, req.headers)
                       [] way = "simple" -> SimpleResponse(o, req.headers, inner))

----------------------------------------------------------------------------
(* The requests of the model *)

Methods == Range(ALL_METHODS)

Paths ==
    {HealthPath, Path(<<"health">>, TRUE), OpenapiPath, DocsPath, OAuth2RedirectPath,
     RedocPath, RootPath, Path(<<"missing">>, FALSE)}

Origins == {"https://example.com"}
\* values of Access-Control-Request-Method: a method that ALL_METHODS lists
\* and one that it does not
RequestedMethods == {"DELETE", "PROPFIND"}
\* values of Access-Control-Request-Headers, as the list of names
RequestedHeaders == {<<"x-custom", "content-type">>}

Optional(name, values) == {NoHeaders} \cup {name :> v : v \in values}

HeaderSets ==
    {o @@ m @@ h @@ c :
        o \in Optional("origin", Origins),
        m \in Optional("access-control-request-method", RequestedMethods),
        h \in Optional("access-control-request-headers", RequestedHeaders),
        c \in Optional("cookie", {"session=1"})}

Requests == {Request(m, p, h) : m \in Methods, p \in Paths, h \in HeaderSets}

\* the requests handled side by side in SpecConc: one of each way through
\* the middleware and the router
ConcRequests ==
    {Request("GET", HealthPath, NoHeaders),
     Request("GET", HealthPath, ("origin" :> "https://example.com") @@ ("cookie" :> "session=1")),
     Request("OPTIONS", HealthPath,
             ("origin" :> "https://example.com") @@ ("access-control-request-method" :> "DELETE")
             @@ ("access-control-request-headers" :> <<"x-custom">>)),
     Request("OPTIONS", Path(<<"missing">>, FALSE),
             ("origin" :> "https://example.com") @@ ("access-control-request-method" :> "PROPFIND")),
     Request("HEAD", OpenapiPath, "origin" :> "https://example.com"),
     Request("POST", Path(<<"health">>, TRUE), NoHeaders)}

----------------------------------------------------------------------------
(* The process *)

Idle == [phase |-> "idle", req |-> NoRequest, way |-> None, resp |-> NoResponse]

Init ==
    /\ pc = "L4"
    /\ stdout = <<>>
    /\ bindAttempts = 0
    /\ listener = <<>>
    /\ exitCode = -1
    /\ app = NoApp
    /\ conn = [i \in 1..MaxInFlight |-> Idle]
    /\ served = 0
    /\ lastReq = NoRequest
    /\ lastResp = NoResponse

\* line 4: app = FastAPI()
NewApp ==
    /\ pc = "L4"
    /\ app' = FastAPI
    /\ pc' = "L6"
    /\ UNCHANGED <<stdout, bindAttempts, listener, exitCode, conn, served, lastReq, lastResp>>

\* lines 6-12: app.add_middleware(CORSMiddleware, ...)
AddMiddleware ==
    /\ pc = "L6"
    /\ app' = add_middleware(app, cors)
    /\ pc' = "L14"
    /\ UNCHANGED <<stdout, bindAttempts, listener, exitCode, conn, served, lastReq, lastResp>>

\* lines 14-16: @app.get("/health") async def health()
AddHealthRoute ==
    /\ pc = "L14"
    /\ app' = get(app, HealthPath, "health")
    /\ pc' = "L18"
    /\ UNCHANGED <<stdout, bindAttempts, listener, exitCode, conn, served, lastReq, lastResp>>

\* Mutant of RunAsMain: the server is started before the banners are printed.
RunAsMain_late ==
    /\ pc = "L18"
    /\ pc' = "L22"
    /\ UNCHANGED <<stdout, bindAttempts, listener, exitCode, app, conn, served, lastReq, lastResp>>

\* line 18, __name__ == "__main__": the file is run directly
RunAsMain ==
    /\ pc = "L18"
    /\ pc' = "L20"
    /\ UNCHANGED <<stdout, bindAttempts, listener, exitCode, app, conn, served, lastReq, lastResp>>

\* line 18, otherwise: the file is imported, and nothing more of it runs
Imported ==
    /\ pc = "L18"
    /\ pc' = "imported"
    /\ UNCHANGED <<stdout, bindAttempts, listener, exitCode, app, conn, served, lastReq, lastResp>>

\* line 20
Print1 ==
    /\ pc = "L20"
    /\ stdout' = Append(stdout, Banner1)
    /\ pc' = "L21"
    /\ UNCHANGED <<bindAttempts, listener, exitCode, app, conn, served, lastReq, lastResp>>

\* line 21
Print2 ==
    /\ pc = "L21"
    /\ stdout' = Append(stdout, Banner2)
    /\ pc' = "L22"
    /\ UNCHANGED <<bindAttempts, listener, exitCode, app, conn, served, lastReq, lastResp>>

\* line 22, uvicorn.run: the listener is bound to Host:Port and the server
\* starts accepting
BindOk ==
    /\ pc = "L22"
    /\ bindAttempts' = bindAttempts + 1
    /\ listener' = <<Host, Port>>
    /\ pc' = "serving"
    /\ UNCHANGED <<stdout, exitCode, app, conn, served, lastReq, lastResp>>

\* Mutant of BindFail: a failed bind is tried once more.
BindFail_retry ==
    /\ pc = "L22"
    /\ bindAttempts < 2
    /\ bindAttempts' = bindAttempts + 1
    /\ UNCHANGED <<pc, stdout, listener, exitCode, app, conn, served, lastReq, lastResp>>

\* line 22, uvicorn.run: binding raises OSError (address in use, permission
\* denied); the server logs it and exits the process with a non-zero status
\* (1 or 3, depending on the uvicorn release)
BindFail ==
    /\ pc = "L22"
    /\ bindAttempts' = bindAttempts + 1
    /\ \E code \in {1, 3} : exitCode' = code
    /\ pc' = "exited"
    /\ UNCHANGED <<stdout, listener, app, conn, served, lastReq, lastResp>>

Startup ==
    \/ NewApp \/ AddMiddleware \/ AddHealthRoute
    \/ RunAsMain \/ Imported
    \/ Print1 \/ Print2
    \/ BindOk \/ BindFail

\* One request handled from its arrival to its response.
Handle(req) ==
    /\ pc = "serving"
    /\ served < MaxServed
    /\ lastReq' = req
    /\ lastResp' = Respond(app, req)
    /\ app' = AppAfter(app, req)
    /\ served' = served + 1
    /\ UNCHANGED <<pc, stdout, bindAttempts, listener, exitCode, conn>>

Next == Startup \/ \E req \in Requests : Handle(req)

Spec == Init /\ [][Next]_vars

----------------------------------------------------------------------------
(* Requests handled side by side: each connection is a task of the event  *)
(* loop, and the tasks interleave where the handling awaits.              *)

InFlight == {i \in DOMAIN conn : conn[i].phase # "idle"}

\* the server reads a request on connection i and starts a task for it
Accept(i, req) ==
    /\ pc = "serving"
    /\ conn[i].phase = "idle"
    /\ served + Cardinality(InFlight) < MaxServed
    /\ conn' = [conn EXCEPT ![i] = [phase |-> "read", req |-> req, way |-> None,
                                    resp |-> NoResponse]]
    /\ UNCHANGED <<pc, stdout, bindAttempts, listener, exitCode, app, served, lastReq, lastResp>>

\* CORSMiddleware.__call__ for the request of connection i: a preflight is
\* answered by the middleware, any other request goes on to the router
CallMiddleware(i) ==
    /\ conn[i].phase = "read"
    /\ LET req == conn[i].req
           way == IF app.user_middleware = <<>> THEN "app" ELSE CorsDispatch(req)
       IN  conn' = [conn EXCEPT ![i] =
                IF way = "preflight"
                THEN [@ EXCEPT !.phase = "start", !.way = way,
                               !.resp = PreflightResponse(app.user_middleware[1],
                                                          req.headers)]
                ELSE [@ EXCEPT !.phase = "app", !.way = way]]
    /\ UNCHANGED <<pc, stdout, bindAttempts, listener, exitCode, app, served, lastReq, lastResp>>

\* Mutant of CallRouter: the request is read from a variable the tasks
\* share, which holds the request of the lowest connection in flight.
CallRouter_shared(i) ==
    /\ conn[i].phase = "app"
    /\ LET j == CHOOSE k \in InFlight : \A l \in InFlight : k <= l
       IN  conn' = [conn EXCEPT ![i] = [@ EXCEPT !.phase = "start",
                                                !.resp = RouterApp(app.routes, conn[j].req)]]
    /\ app' = AppAfter(app, conn[i].req)
    /\ UNCHANGED <<pc, stdout, bindAttempts, listener, exitCode, served, lastReq, lastResp>>

\* the router and the endpoint for the request of connection i
CallRouter(i) ==
    /\ conn[i].phase = "app"
    /\ conn' = [conn EXCEPT ![i] = [@ EXCEPT !.phase = "start",
                                             !.resp = RouterApp(app.routes, conn[i].req)]]
    /\ app' = AppAfter(app, conn[i].req)
    /\ UNCHANGED <<pc, stdout, bindAttempts, listener, exitCode, served, lastReq, lastResp>>

\* the response of connection i is sent, through CORSMiddleware.send when
\* the request went the "simple" way
Send(i) ==
    /\ conn[i].phase = "start"
    /\ LET c == conn[i]
           response ==
               IF c.way = "simple"
               THEN SimpleResponse(app.user_middleware[1], c.req.headers, c.resp)
               ELSE c.resp
       IN  /\ lastReq' = c.req
           /\ lastResp' = OnTheWire(c.req, response)
    /\ served' = served + 1
    /\ conn' = [conn EXCEPT ![i] = Idle]
    /\ UNCHANGED <<pc, stdout, bindAttempts, listener, exitCode, app>>

\* the next step of the task of connection i
Step(i) == CallMiddleware(i) \/ CallRouter(i) \/ Send(i)

NextConc ==
    \/ Startup
    \/ \E i \in DOMAIN conn, req \in ConcRequests : Accept(i, req)
    \/ \E i \in DOMAIN conn : CallMiddleware(i)
    \/ \E i \in DOMAIN conn : CallRouter(i)
    \/ \E i \in DOMAIN conn : Send(i)

SpecConc == Init /\ [][NextConc]_vars

----------------------------------------------------------------------------
(* Properties *)

Answered == served > 0
IsHealth(req) == req.path = HealthPath
HasOrigin(req) == Has(req.headers, "origin")
\* what CORSMiddleware takes for a preflight request
IsPreflight(req) ==
    /\ req.method = "OPTIONS"
    /\ HasOrigin(req)
    /\ Has(req.headers, "access-control-request-method")
Success(status) == status \in 200..299
HealthPayload == <<<<"status", "ok">>, <<"service", "python-backend">>>>
\* Access-Control-Allow-Origin is the wildcard or the request's origin
OriginPermitted(req, resp) ==
    /\ Has(resp.headers, "access-control-allow-origin")
    /\ resp.headers["access-control-allow-origin"] \in {"*", req.headers["origin"]}
CredentialsAllowed(resp) ==
    /\ Has(resp.headers, "access-control-allow-credentials")
    /\ resp.headers["access-control-allow-credentials"] = "true"
StandardMethods == {"DELETE", "GET", "HEAD", "OPTIONS", "PATCH", "POST", "PUT"}
DocumentationPaths == {OpenapiPath, DocsPath, OAuth2RedirectPath, RedocPath}
\* the preflight response permits what the request asks for
PermitsRequested(req, resp) ==
    /\ Has(resp.headers, "access-control-allow-methods")
    /\ req.headers["access-control-request-method"]
           \in Range(resp.headers["access-control-allow-methods"])
    /\ Has(req.headers, "access-control-request-headers") =>
           /\ Has(resp.headers, "access-control-allow-headers")
           /\ Range(req.headers["access-control-request-headers"])
                  \subseteq Range(resp.headers["access-control-allow-headers"])

\* C1: every GET /health is answered 200 with exactly the body
\* {"status": "ok", "service": "python-backend"}, whatever was served before.
C1_HealthIsConstant ==
    (Answered /\ lastReq.method = "GET" /\ IsHealth(lastReq)) =>
        /\ lastResp.status = 200
        /\ lastResp.body = HealthPayload
        /\ Len(lastResp.body) = 2

\* C1 witness: GET /health answered as the second request, after a request
\* that left the OpenAPI schema in the application object.
C1_Witness ==
    /\ served >= 2
    /\ lastReq.method = "GET" /\ IsHealth(lastReq)
    /\ app.openapi_schema # <<>>
    /\ lastResp.status = 200

\* C2 as stated: every response carries Access-Control-Allow-Origin, and
\* for a request that names an origin it is the wildcard or that origin.
C2_Original ==
    Answered =>
        /\ Has(lastResp.headers, "access-control-allow-origin")
        /\ HasOrigin(lastReq) => OriginPermitted(lastReq, lastResp)

\* C2 amended: the response to a request that carries an Origin header has
\* Access-Control-Allow-Origin, the wildcard or that origin; the response to
\* a request without Origin has no Access-Control-Allow-Origin.
C2_AllowOriginIffOrigin ==
    Answered =>
        IF HasOrigin(lastReq)
        THEN OriginPermitted(lastReq, lastResp)
        ELSE ~Has(lastResp.headers, "access-control-allow-origin")

\* C2 witness: a request with a cookie and an origin, answered with that
\* origin echoed, on a path no route matches.
C2_Witness ==
    /\ Answered
    /\ HasOrigin(lastReq)
    /\ lastResp.status = 404
    /\ lastResp.headers["access-control-allow-origin"] = lastReq.headers["origin"]

C4_Original ==
    (Answered /\ IsHealth(lastReq) /\ IsPreflight(lastReq)) =>
        /\ Success(lastResp.status)
        /\ OriginPermitted(lastReq, lastResp)
        /\ PermitsRequested(lastReq, lastResp)

\* C4 amended: a preflight to /health that asks for one of DELETE, GET,
\* HEAD, OPTIONS, PATCH, POST, PUT succeeds for every origin and every
\* requested headers, with the origin permitted and the request granted; one
\* that asks for any other method is answered 400, the origin still
\* permitted.
C4_PreflightStandardMethods ==
    (Answered /\ IsHealth(lastReq) /\ IsPreflight(lastReq)) =>
        /\ OriginPermitted(lastReq, lastResp)
        /\ IF lastReq.headers["access-control-request-method"] \in StandardMethods
           THEN /\ lastResp.status = 200
                /\ PermitsRequested(lastReq, lastResp)
           ELSE lastResp.status = 400

\* C4 witness: a preflight to /health asking for DELETE with the headers
\* x-custom and content-type, granted.
C4_Witness ==
    /\ Answered /\ IsHealth(lastReq) /\ IsPreflight(lastReq)
    /\ lastReq.headers["access-control-request-method"] = "DELETE"
    /\ Has(lastReq.headers, "access-control-request-headers")
    /\ lastResp.status = 200

\* C5 as stated: every response carries Access-Control-Allow-Credentials: true.
C5_Original == Answered => CredentialsAllowed(lastResp)

\* C5 amended: every response to a request that carries an Origin header
\* has Access-Control-Allow-Credentials: true (preflight, rejected preflight
\* and unknown path included); the response to a request without Origin has
\* no such header.
C5_CredentialsIffOrigin ==
    Answered =>
        IF HasOrigin(lastReq)
        THEN CredentialsAllowed(lastResp)
        ELSE ~Has(lastResp.headers, "access-control-allow-credentials")

\* C5 witness: a rejected preflight for an unknown path, still carrying the
\* credentials header.
C5_Witness ==
    /\ Answered /\ IsPreflight(lastReq)
    /\ lastReq.path = Path(<<"missing">>, FALSE)
    /\ lastResp.status = 400
    /\ CredentialsAllowed(lastResp)

\* the status of a request to /health that is not a GET, from the request alone
NonGetHealthStatus(req) ==
    IF ~IsPreflight(req) THEN 405
    ELSE IF req.headers["access-control-request-method"] \in StandardMethods THEN 200
    ELSE 400

\* C6 as stated: a non-GET request to /health is answered 200, 404 or 405.
C6_Original ==
    (Answered /\ IsHealth(lastReq) /\ lastReq.method # "GET") =>
        lastResp.status \in {200, 404, 405}

\* C6 amended: a non-GET request to /health is answered 200, 400 or 405,
\* and the request alone fixes which: 405 unless it is a CORS preflight,
\* which gets 200 when it asks for a standard method and 400 otherwise;
\* what was served before plays no part.
C6_NonGetHealthStatus ==
    (Answered /\ IsHealth(lastReq) /\ lastReq.method # "GET") =>
        /\ lastResp.status \in {200, 400, 405}
        /\ lastResp.status = NonGetHealthStatus(lastReq)

\* C6 witness: HEAD /health answered 405 as the second request.
C6_Witness ==
    /\ served >= 2
    /\ IsHealth(lastReq) /\ lastReq.method = "HEAD"
    /\ lastResp.status = 405

\* C7: a failed bind ends the process with a failure status, nothing
\* served, nothing in flight and the bind tried once; a request is served
\* only by a process whose one bind succeeded.
C7_BindFailureIsFatal ==
    /\ bindAttempts <= 1
    /\ pc = "exited" =>
           /\ exitCode > 0
           /\ served = 0 /\ InFlight = {}
           /\ listener = <<>>
           /\ ~ENABLED Next
    /\ (Answered \/ InFlight # {}) =>
           /\ pc = "serving"
           /\ exitCode = -1
           /\ listener = <<Host, Port>>

\* C7 witness: the process has exited after its only bind failed.
C7_Witness == pc = "exited" /\ bindAttempts = 1 /\ exitCode = 3

\* C8: in a direct run the two banner lines, in order, are all of standard
\* output from before the bind onwards, whether the bind succeeds or fails;
\* until then standard output is a prefix of them.
C8_BannersBeforeBind ==
    /\ (pc \in {"L22", "serving", "exited"} \/ bindAttempts > 0 \/ Answered) =>
           stdout = <<Banner1, Banner2>>
    /\ stdout \in {<<>>, <<Banner1>>, <<Banner1, Banner2>>}

\* C8 witness: the bind failed in a run that had printed both banners.
C8_Witness == pc = "exited" /\ exitCode = 1 /\ Len(stdout) = 2

C10_RequestsAreIndependent ==
    /\ Answered => lastResp = Respond(app, lastReq)
    /\ \A i \in InFlight : ENABLED Step(i)

\* C10 witness: a response has been sent while another request, a
\* different one, was between the middleware and the router.
C10_Witness ==
    /\ Answered
    /\ \E i \in InFlight : conn[i].phase = "app" /\ conn[i].req # lastReq

====
